---- MODULE Spec2Model ----
(***************************************************************************)
(* Model of examples/validator.rs: the ValidatorMiddleware registry        *)
(* (new, add_validator, with_validators) and its per-request dispatch      *)
(* (Middleware::handle).                                                   *)
(*                                                                         *)
(* Strings are sequences of one-character strings, Option<T> is a sequence *)
(* of length 0 (None) or 1 (Some), a HashMap is a function whose DOMAIN is *)
(* its key set and a Vec is a sequence.                                    *)
(***************************************************************************)
EXTENDS Integers, Sequences, FiniteSets, TLC

(***************************************************************************)
(* Bounds of the model.                                                    *)
(***************************************************************************)
\* Upper bound on the number of validators held by the registry (sum of the
\* chain lengths) when the middleware is installed.
MaxRegs == 2

\* A status code other than 400 that a validator may put on its error.
OtherStatus == 422

(***************************************************************************)
(* Program constants.                                                      *)
(***************************************************************************)
\* is_length_under(10), registered on QueryParam("test") by main.
MinLength == 10

(***************************************************************************)
(* Option<T>.                                                              *)
(***************************************************************************)
None == <<>>

Some(v) == <<v>>

is_none(o) == Len(o) = 0

is_some(o) == Len(o) = 1

unwrap(o) == o[1]

(***************************************************************************)
(* Request values: the strings the requests of the model carry.            *)
(***************************************************************************)
Values == { <<"t","r","u","e">>,
            <<"1","2","3","4","5","6","7","8","9","0">> }

OptValues == {None} \cup {Some(v) : v \in Values}

(***************************************************************************)
(* enum ParameterType: a source tag and a name.                            *)
(***************************************************************************)
ParameterType == { [src |-> "Param",      name |-> "n"],
                   [src |-> "QueryParam", name |-> "test"],
                   [src |-> "QueryParam", name |-> "q"],
                   [src |-> "Header",     name |-> "X-Custom-Header"],
                   [src |-> "Cookie",     name |-> "test"] }

NamesOf(src) == {k.name : k \in {p \in ParameterType : p.src = src}}

(***************************************************************************)
(* struct CustomError and the validators.                                  *)
(* A format!() result is kept as the format string with its arguments.     *)
(***************************************************************************)
CustomError(status_code, fmt, value, n) ==
    [status_code |-> status_code,
     message     |-> [fmt |-> fmt, value |-> value, n |-> n]]

Ok == [ok |-> TRUE, err |-> CustomError(0, "", <<>>, 0)]

Err(e) == [ok |-> FALSE, err |-> e]

Digits == {"0","1","2","3","4","5","6","7","8","9"}

DigitVal(c) == CHOOSE d \in 0..9 : <<"0","1","2","3","4","5","6","7","8","9">>[d + 1] = c

RECURSIVE StripZeros(_)
StripZeros(s) == IF Len(s) > 1 /\ s[1] = "0" THEN StripZeros(Tail(s)) ELSE s

\* a <= b for two digit strings of the same length
RECURSIVE DigitsLeq(_, _)
DigitsLeq(a, b) ==
    IF Len(a) = 0 THEN TRUE
    ELSE IF DigitVal(a[1]) < DigitVal(b[1]) THEN TRUE
    ELSE IF DigitVal(a[1]) > DigitVal(b[1]) THEN FALSE
    ELSE DigitsLeq(Tail(a), Tail(b))

I64MaxDigits == <<"9","2","2","3","3","7","2","0","3","6","8","5","4","7","7","5","8","0","7">>

I64MinDigits == <<"9","2","2","3","3","7","2","0","3","6","8","5","4","7","7","5","8","0","8">>

\* str::parse::<i64>().is_ok(): an optional sign, at least one digit, only
\* digits, and a magnitude that fits 64 bits.
parse_i64_is_ok(s) ==
    LET neg  == Len(s) > 0 /\ s[1] = "-"
        sgn  == Len(s) > 0 /\ s[1] \in {"+", "-"}
        body == IF sgn THEN Tail(s) ELSE s
        mag  == StripZeros(body)
        lim  == IF neg THEN I64MinDigits ELSE I64MaxDigits
    IN  /\ Len(body) > 0
        /\ \A i \in 1..Len(body) : body[i] \in Digits
        /\ \/ Len(mag) < Len(lim)
           \/ Len(mag) = Len(lim) /\ DigitsLeq(mag, lim)

is_number(param_value) ==
    IF ~parse_i64_is_ok(param_value)
    THEN Err(CustomError(400, "'{}' is not a valid number", param_value, 0))
    ELSE Ok

is_bool(param_value) ==
    IF param_value \in { <<"t","r","u","e">>, <<"f","a","l","s","e">> }
    THEN Ok
    ELSE Err(CustomError(400, "'{}' is not a valid boolean", param_value, 0))

is_length_under(min_length, param_value) ==
    IF Len(param_value) < min_length
    THEN Err(CustomError(400, "'{}' have not the minimal length of {}",
                         param_value, min_length))
    ELSE Ok

\* Any other F: Fn(&str) -> Result<(), T>: here one that rejects every value
\* with an error that carries its own status code.
deny(status_code, param_value) ==
    Err(CustomError(status_code, "'{}' is denied", param_value, 0))

\* The validators the model registers (the F of add_validator).
Validators == { [fn |-> "is_number",       arg |-> 0],
                [fn |-> "is_bool",         arg |-> 0],
                [fn |-> "is_length_under", arg |-> MinLength],
                [fn |-> "deny",            arg |-> OtherStatus] }

\* validator(&value): the call of a registered closure.
call(validator, value) ==
    CASE validator.fn = "is_number"       -> is_number(value)
      [] validator.fn = "is_bool"         -> is_bool(value)
      [] validator.fn = "is_length_under" -> is_length_under(validator.arg, value)
      [] validator.fn = "deny"            -> deny(validator.arg, value)

(***************************************************************************)
(* The registry: ValidatorMiddleware.validators, a HashMap from            *)
(* ParameterType to a Vec of validators.                                   *)
(***************************************************************************)
\* ValidatorMiddleware::new()
new == [k \in {} |-> <<>>]

\* Faulty variant: the new validator replaces the chain (HashMap::insert).
add_validator_replace(vs, param_name, validator) ==
    IF param_name \in DOMAIN vs
    THEN [vs EXCEPT ![param_name] = <<validator>>]
    ELSE vs @@ (param_name :> <<validator>>)

\* Faulty variant: the new validator goes to the front of the chain.
add_validator_front(vs, param_name, validator) ==
    IF param_name \in DOMAIN vs
    THEN [vs EXCEPT ![param_name] = <<validator>> \o @]
    ELSE vs @@ (param_name :> <<validator>>)

\* ValidatorMiddleware::add_validator: entry(k).and_modify(push).or_insert(vec![v])
add_validator(vs, param_name, validator) ==
    IF param_name \in DOMAIN vs
    THEN [vs EXCEPT ![param_name] = Append(@, validator)]
    ELSE vs @@ (param_name :> <<validator>>)

\* Faulty variant: the given mapping overwrites the chains of its keys.
with_validators_insert(vs, given, order) ==
    [k \in DOMAIN vs \cup DOMAIN given |->
        IF k \in DOMAIN given THEN <<given[k]>> ELSE vs[k]]

\* ValidatorMiddleware::with_validators: one add_validator per entry of the
\* given HashMap, in the order its iterator yields them.
RECURSIVE with_validators(_, _, _)
with_validators(vs, given, order) ==
    IF Len(order) = 0 THEN vs
    ELSE with_validators(add_validator(vs, order[1], given[order[1]]),
                         given, Tail(order))

\* The orders in which a HashMap iterator may yield a key set.
IterOrders(keys) ==
    {o \in [1..Cardinality(keys) -> keys] :
        \A i, j \in 1..Cardinality(keys) : o[i] = o[j] => i = j}

RECURSIVE SumLen(_, _)
SumLen(vs, keys) ==
    IF keys = {} THEN 0
    ELSE LET k == CHOOSE x \in keys : TRUE
         IN  Len(vs[k]) + SumLen(vs, keys \ {k})

\* Number of validators the registry holds.
Size(vs) == SumLen(vs, DOMAIN vs)

\* The HashMaps with_validators may be given.
GivenMaps(budget) ==
    UNION { [ks -> Validators] :
            ks \in {s \in SUBSET ParameterType : Cardinality(s) <= budget} }

(***************************************************************************)
(* The request as the host's accessors show it (tide::Request).            *)
(***************************************************************************)
Requests ==
    [param  : [NamesOf("Param") -> OptValues],
     query  : [ok : BOOLEAN, map : [NamesOf("QueryParam") -> OptValues]],
     header : [NamesOf("Header") -> OptValues],
     cookie : [NamesOf("Cookie") -> OptValues]]

NoRequest ==
    [param  |-> [n \in NamesOf("Param") |-> None],
     query  |-> [ok |-> TRUE, map |-> [n \in NamesOf("QueryParam") |-> None]],
     header |-> [n \in NamesOf("Header") |-> None],
     cookie |-> [n \in NamesOf("Cookie") |-> None]]

\* ctx.param(name): Ok(value), or an error when the route binds no such name
ctx_param(c, name) == c.param[name]

\* ctx.query::<HashMap<String, String>>(): the decoded mapping or an error
ctx_query(c) ==
    IF c.query.ok
    THEN [ok |-> TRUE,
          qps |-> [n \in {m \in DOMAIN c.query.map : is_some(c.query.map[m])}
                     |-> unwrap(c.query.map[n])]]
    ELSE [ok |-> FALSE, qps |-> [n \in {} |-> <<>>]]

\* ctx.header(name)
ctx_header(c, name) == c.header[name]

\* ctx.cookie(name).map(|cookie| cookie.value())
ctx_cookie(c, name) == c.cookie[name]

\* Faulty variant: a missing query parameter reads as the empty string.
get_or_empty(qps, name) == IF name \in DOMAIN qps THEN Some(qps[name]) ELSE Some(<<>>)

\* HashMap::get on the decoded query mapping
get(qps, name) == IF name \in DOMAIN qps THEN Some(qps[name]) ELSE None

\* The raw field a key names, whatever the decoder makes of the query string.
Field(c, k) ==
    CASE k.src = "Param"      -> c.param[k.name]
      [] k.src = "QueryParam" -> c.query.map[k.name]
      [] k.src = "Header"     -> c.header[k.name]
      [] k.src = "Cookie"     -> c.cookie[k.name]

\* The request whose fields are those f gives to the keys in DOMAIN f, the
\* others absent; a query string that does not decode (~ok) has no fields.
Request(f, ok) ==
    LET at(src, n) == LET k == [src |-> src, name |-> n]
                      IN  IF k \in DOMAIN f THEN f[k] ELSE None
    IN  [param  |-> [n \in NamesOf("Param") |-> at("Param", n)],
         query  |-> [ok  |-> ok,
                     map |-> [n \in NamesOf("QueryParam") |->
                                IF ok THEN at("QueryParam", n) ELSE None]],
         header |-> [n \in NamesOf("Header") |-> at("Header", n)],
         cookie |-> [n \in NamesOf("Cookie") |-> at("Cookie", n)]]

\* The requests the model sends through a registry with the given keys: the
\* fields no registered key names stay absent, and the query string decodes
\* unless a QueryParam key is registered (handle reads nothing else).
RequestsFor(keys) ==
    {Request(f, ok) :
        f \in [keys -> OptValues],
        ok \in IF \E k \in keys : k.src = "QueryParam" THEN BOOLEAN ELSE {TRUE}}

(***************************************************************************)
(* Responses.                                                              *)
(***************************************************************************)
\* Response::new(status).body_json(&body)
body_json(status, body) == [status |-> status, kind |-> "json", body |-> body]

\* Response::new(status).body_string(format!(fmt, name, error))
body_string(status, fmt, name, error) ==
    [status |-> status, kind |-> "text",
     body |-> [fmt |-> fmt, name |-> name, error |-> error]]

\* Faulty variant: the fallback text does not name the field.
error_response_unnamed(what, name, err, serialized) ==
    IF serialized
    THEN body_json(400, err)
    ELSE body_string(500,
            <<"cannot serialize your ", what, " validator for '{}' error : {:?}">>,
            "", "serde_json::Error")

\* Response::new(400).body_json(&err).unwrap_or_else(|err| Response::new(500)...)
\* serialized tells whether serde could encode the error.
error_response(what, name, err, serialized) ==
    IF serialized
    THEN body_json(400, err)
    ELSE body_string(500,
            <<"cannot serialize your ", what, " validator for '{}' error : {:?}">>,
            name, "serde_json::Error")

\* Faulty variant: a query string that does not decode is answered as a bad request.
query_error_response_400 ==
    body_string(400, <<"cannot read query parameters: {:?}">>, "", "tide::Error")

\* The reply to a query string that does not decode.
query_error_response ==
    body_string(500, <<"cannot read query parameters: {:?}">>, "", "tide::Error")

\* What the route's endpoint (next.run) may answer.
NextResponses == { body_json(200, [name |-> "chashu"]),
                   body_string(404, <<"">>, "", "") }

(***************************************************************************)
(* State.                                                                  *)
(***************************************************************************)
VARIABLES
    validators,        \* self.validators
    installed,         \* the middleware has been moved into the app (main)
    last,              \* the last registry call and its arguments
    registered,        \* per key: the validators passed for it, in call order
    pc,                \* per task: "idle", "Validating", "Resolved", "Panicked"
    line,              \* per task: the place in handle the task is at
    ctx,               \* per task: the request
    query_parameters,  \* per task: the local Option<HashMap<String, String>>
    visited,           \* per task: the keys the outer for loop has yielded
    cur,               \* per task: the key of the current match arm
    vi,                \* per task: index of the next validator of the chain
    response,          \* per task: the Response handle returned, if any
    log,               \* per task: the calls handle has made, in order
    next_run,          \* per task: the next.run calls: request passed, answer
    extracted          \* per task: what each accessor call on the request found

vars == <<validators, installed, last, registered, pc, line, ctx,
          query_parameters, visited, cur, vi, response, log, next_run,
          extracted>>

registry_vars == <<validators, installed, last, registered>>

task_vars == <<pc, line, ctx, query_parameters, visited, cur, vi, response,
               log, next_run, extracted>>

\* The tasks on which the host runs handle.
Workers == {1}

Tasks == DOMAIN pc

NoValidator == [fn |-> "", arg |-> 0]

NoKey == [src |-> "", name |-> ""]

\* An entry of the log: a call handle made and whether it returned Ok.
Event(op, key, i, f, ok) ==
    [op |-> op, key |-> key, i |-> i, f |-> f, ok |-> ok]

InitWith(tasks) ==
    /\ validators = new
    /\ installed = FALSE
    /\ last = [op |-> "new", key |-> NoKey, given |-> new]
    /\ registered = [k \in ParameterType |-> <<>>]
    /\ pc = [r \in tasks |-> "idle"]
    /\ line = [r \in tasks |-> "none"]
    /\ ctx = [r \in tasks |-> NoRequest]
    /\ query_parameters = [r \in tasks |-> None]
    /\ visited = [r \in tasks |-> {}]
    /\ cur = [r \in tasks |-> NoKey]
    /\ vi = [r \in tasks |-> 0]
    /\ response = [r \in tasks |-> None]
    /\ log = [r \in tasks |-> <<>>]
    /\ next_run = [r \in tasks |-> <<>>]
    /\ extracted = [r \in tasks |-> {}]

Init == InitWith(Workers)

(***************************************************************************)
(* Setup: the registry is built, then installed.                           *)
(***************************************************************************)
AddValidator(param_name, validator) ==
    /\ ~installed
    /\ Size(validators) < MaxRegs
    /\ validators' = add_validator(validators, param_name, validator)
    /\ last' = [op |-> "add_validator", key |-> param_name,
                given |-> (param_name :> validator)]
    /\ registered' = [registered EXCEPT ![param_name] = Append(@, validator)]
    /\ UNCHANGED <<installed, task_vars>>

WithValidators(given, order) ==
    /\ ~installed
    /\ Size(validators) + Cardinality(DOMAIN given) <= MaxRegs
    /\ validators' = with_validators(validators, given, order)
    /\ last' = [op |-> "with_validators", key |-> NoKey, given |-> given]
    /\ registered' = [k \in ParameterType |->
                        IF k \in DOMAIN given
                        THEN Append(registered[k], given[k])
                        ELSE registered[k]]
    /\ UNCHANGED <<installed, task_vars>>

\* app.at("/test/:n").middleware(validator_middleware)
Install ==
    /\ ~installed
    /\ installed' = TRUE
    /\ last' = [op |-> "install", key |-> NoKey, given |-> new]
    /\ UNCHANGED <<validators, registered, task_vars>>

(***************************************************************************)
(* Middleware::handle, one step per loop iteration.                        *)
(***************************************************************************)
\* Faulty variant: the query string is decoded on entry, before any key.
Receive_eager(r, c) ==
    /\ installed
    /\ pc[r] = "idle"
    /\ pc' = [pc EXCEPT ![r] = "Validating"]
    /\ line' = [line EXCEPT ![r] = "for"]
    /\ ctx' = [ctx EXCEPT ![r] = c]
    /\ query_parameters' = [query_parameters EXCEPT ![r] =
                              IF ctx_query(c).ok THEN Some(ctx_query(c).qps) ELSE None]
    /\ visited' = [visited EXCEPT ![r] = {}]
    /\ cur' = [cur EXCEPT ![r] = NoKey]
    /\ vi' = [vi EXCEPT ![r] = 0]
    /\ response' = [response EXCEPT ![r] = None]
    /\ log' = [log EXCEPT ![r] =
                 <<Event("query", NoKey, 0, NoValidator, ctx_query(c).ok)>>]
    /\ next_run' = [next_run EXCEPT ![r] = <<>>]
    /\ extracted' = [extracted EXCEPT ![r] = {}]
    /\ UNCHANGED registry_vars

\* The host calls handle(ctx, next); let mut query_parameters = None
Receive(r, c) ==
    /\ installed
    /\ pc[r] = "idle"
    /\ pc' = [pc EXCEPT ![r] = "Validating"]
    /\ line' = [line EXCEPT ![r] = "for"]
    /\ ctx' = [ctx EXCEPT ![r] = c]
    /\ query_parameters' = [query_parameters EXCEPT ![r] = None]
    /\ visited' = [visited EXCEPT ![r] = {}]
    /\ cur' = [cur EXCEPT ![r] = NoKey]
    /\ vi' = [vi EXCEPT ![r] = 0]
    /\ response' = [response EXCEPT ![r] = None]
    /\ log' = [log EXCEPT ![r] = <<>>]
    /\ next_run' = [next_run EXCEPT ![r] = <<>>]
    /\ extracted' = [extracted EXCEPT ![r] = {}]
    /\ UNCHANGED registry_vars

\* The match arm a key selects.
arm(param_name) ==
    CASE param_name.src = "Param"      -> "param"
      [] param_name.src = "QueryParam" -> "query"
      [] param_name.src = "Header"     -> "header"
      [] param_name.src = "Cookie"     -> "cookie"

\* for (param_name, validators) in &self.validators: the iterator yields a key
\* it has not yielded yet, in no particular order.
ForEach(r, k) ==
    /\ pc[r] = "Validating" /\ line[r] = "for"
    /\ k \in DOMAIN validators \ visited[r]
    /\ cur' = [cur EXCEPT ![r] = k]
    /\ line' = [line EXCEPT ![r] = arm(k)]
    /\ vi' = [vi EXCEPT ![r] = 1]
    /\ UNCHANGED <<registry_vars, pc, ctx, query_parameters, visited, response,
                   log, next_run, extracted>>

\* Faulty variant: the outer loop is left after the first arm.
EndArm_break(r) ==
    /\ visited' = [visited EXCEPT ![r] = DOMAIN validators]
    /\ cur' = [cur EXCEPT ![r] = NoKey]
    /\ line' = [line EXCEPT ![r] = "for"]
    /\ vi' = [vi EXCEPT ![r] = 0]

\* The end of a match arm: back to the outer loop.
EndArm(r) ==
    /\ visited' = [visited EXCEPT ![r] = @ \cup {cur[r]}]
    /\ cur' = [cur EXCEPT ![r] = NoKey]
    /\ line' = [line EXCEPT ![r] = "for"]
    /\ vi' = [vi EXCEPT ![r] = 0]

\* return <response>
Return(r, resp) ==
    /\ pc' = [pc EXCEPT ![r] = "Resolved"]
    /\ line' = [line EXCEPT ![r] = "returned"]
    /\ response' = [response EXCEPT ![r] = Some(resp)]

\* Faulty variant: a rejection does not end handle.
returns_on_never(result) == FALSE

\* if let Err(err) = validator(value) { return ... }
returns_on(result) == ~result.ok

\* Faulty variant: a missing value is an error (a required field).
check_required(validator, found) ==
    IF is_some(found)
    THEN [called |-> TRUE, result |-> call(validator, unwrap(found))]
    ELSE [called |-> FALSE,
          result |-> Err(CustomError(400, "'{}' is required", <<>>, 0))]

\* if let Some(value) = found { validator(value) }: whether the validator is
\* called and what the iteration yields.
check(validator, found) ==
    IF is_some(found)
    THEN [called |-> TRUE, result |-> call(validator, unwrap(found))]
    ELSE [called |-> FALSE, result |-> Ok]

\* One iteration of `for validator in validators` on the value the arm
\* extracted; an absent value makes the iteration a no-op.
Validate(r, found, what) ==
    LET k     == cur[r]
        chain == validators[k]
    IN  IF vi[r] > Len(chain)
        THEN /\ EndArm(r)
             /\ UNCHANGED <<pc, response, log>>
        ELSE LET step   == check(chain[vi[r]], found)
                 called == IF step.called
                           THEN Append(log[r], Event("validator", k, vi[r],
                                                     chain[vi[r]], step.result.ok))
                           ELSE log[r]
             IN  IF returns_on(step.result)
                 THEN \E serialized \in BOOLEAN :
                        /\ Return(r, error_response(what, k.name,
                                                    step.result.err, serialized))
                        /\ log' = [log EXCEPT ![r] =
                                     Append(called, Event("body_json", k, vi[r],
                                                          chain[vi[r]], serialized))]
                        /\ UNCHANGED <<visited, cur, vi>>
                 ELSE /\ vi' = [vi EXCEPT ![r] = @ + 1]
                      /\ log' = [log EXCEPT ![r] = called]
                      /\ UNCHANGED <<pc, line, response, visited, cur>>

\* The accessor call of the current iteration found `found`.
Extract(r, found) ==
    extracted' = [extracted EXCEPT ![r] =
                    @ \cup {[key |-> cur[r], i |-> vi[r], found |-> found]}]

\* The accessor is called in the body of `for validator in validators`.
ExtractInLoop(r, found) ==
    IF vi[r] <= Len(validators[cur[r]])
    THEN Extract(r, found)
    ELSE UNCHANGED extracted

\* Faulty variant: reading the path parameter takes it out of the request.
ParamArm_taking(r) ==
    /\ pc[r] = "Validating" /\ line[r] = "param"
    /\ Validate(r, ctx_param(ctx[r], cur[r].name), "parameter")
    /\ ExtractInLoop(r, ctx_param(ctx[r], cur[r].name))
    /\ ctx' = [ctx EXCEPT ![r].param[cur[r].name] = None]
    /\ UNCHANGED <<registry_vars, query_parameters, next_run>>

\* ParameterType::Param(param_name) => for validator in validators { ... }
ParamArm(r) ==
    /\ pc[r] = "Validating" /\ line[r] = "param"
    /\ Validate(r, ctx_param(ctx[r], cur[r].name), "parameter")
    /\ ExtractInLoop(r, ctx_param(ctx[r], cur[r].name))
    /\ UNCHANGED <<registry_vars, ctx, query_parameters, next_run>>

\* ParameterType::Header(header_name) => for validator in validators { ... }
HeaderArm(r) ==
    /\ pc[r] = "Validating" /\ line[r] = "header"
    /\ Validate(r, ctx_header(ctx[r], cur[r].name), "header")
    /\ ExtractInLoop(r, ctx_header(ctx[r], cur[r].name))
    /\ UNCHANGED <<registry_vars, ctx, query_parameters, next_run>>

\* ParameterType::Cookie(cookie_name) => for validator in validators { ... }
CookieArm(r) ==
    /\ pc[r] = "Validating" /\ line[r] = "cookie"
    /\ Validate(r, ctx_cookie(ctx[r], cur[r].name), "cookie")
    /\ ExtractInLoop(r, ctx_cookie(ctx[r], cur[r].name))
    /\ UNCHANGED <<registry_vars, ctx, query_parameters, next_run>>

\* Faulty variant: the test of the cache is inverted.
needs_decode_inverted(qp) == is_some(qp)

\* Faulty variant: the query string is never decoded.
needs_decode_never(qp) == FALSE

\* Faulty variant: the query string is decoded in every QueryParam arm.
needs_decode_always(qp) == TRUE

\* if query_parameters.is_none()
needs_decode(qp) == is_none(qp)

\* Faulty variant: the decoded mapping is kept in one cache for all requests.
QueryDecode_shared(r) ==
    /\ pc[r] = "Validating" /\ line[r] = "query"
    /\ IF needs_decode(query_parameters[r])
       THEN LET decoded == ctx_query(ctx[r])
                called  == Append(log[r], Event("query", cur[r], 0, NoValidator, decoded.ok))
            IN  /\ log' = [log EXCEPT ![r] = called]
                /\ IF decoded.ok
                   THEN /\ query_parameters' =
                              [o \in DOMAIN query_parameters |-> Some(decoded.qps)]
                        /\ line' = [line EXCEPT ![r] = "query_unwrap"]
                        /\ UNCHANGED <<pc, response>>
                   ELSE /\ Return(r, query_error_response)
                        /\ UNCHANGED query_parameters
       ELSE /\ line' = [line EXCEPT ![r] = "query_unwrap"]
            /\ UNCHANGED <<pc, response, log, query_parameters>>
    /\ UNCHANGED <<registry_vars, ctx, visited, cur, vi, next_run, extracted>>

\* ParameterType::QueryParam(param_name) => if query_parameters.is_none() { ... }
QueryDecode(r) ==
    /\ pc[r] = "Validating" /\ line[r] = "query"
    /\ IF needs_decode(query_parameters[r])
       THEN LET decoded == ctx_query(ctx[r])
                called  == Append(log[r], Event("query", cur[r], 0, NoValidator, decoded.ok))
            IN  /\ log' = [log EXCEPT ![r] = called]
                /\ IF decoded.ok
                   THEN /\ query_parameters' =
                              [query_parameters EXCEPT ![r] = Some(decoded.qps)]
                        /\ line' = [line EXCEPT ![r] = "query_unwrap"]
                        /\ UNCHANGED <<pc, response>>
                   ELSE /\ Return(r, query_error_response)
                        /\ UNCHANGED query_parameters
       ELSE /\ line' = [line EXCEPT ![r] = "query_unwrap"]
            /\ UNCHANGED <<pc, response, log, query_parameters>>
    /\ UNCHANGED <<registry_vars, ctx, visited, cur, vi, next_run, extracted>>

\* let query_parameters = query_parameters.as_ref().unwrap();
\* if let Some(qp_value) = query_parameters.get(&param_name[..]) { ... }
QueryGet(r) ==
    /\ pc[r] = "Validating" /\ line[r] = "query_unwrap"
    /\ IF is_none(query_parameters[r])
       THEN /\ pc' = [pc EXCEPT ![r] = "Panicked"]
            /\ line' = [line EXCEPT ![r] = "unwound"]
            /\ UNCHANGED <<visited, cur, vi, extracted>>
       ELSE /\ Extract(r, get(unwrap(query_parameters[r]), cur[r].name))
            /\ IF is_some(get(unwrap(query_parameters[r]), cur[r].name))
               THEN /\ line' = [line EXCEPT ![r] = "query_for"]
                    /\ UNCHANGED <<pc, visited, cur, vi>>
               ELSE /\ EndArm(r)
                    /\ UNCHANGED pc
    /\ UNCHANGED <<registry_vars, ctx, query_parameters, response, log, next_run>>

\* for validator in validators { if let Err(err) = validator(qp_value) ... }
QueryArm(r) ==
    /\ pc[r] = "Validating" /\ line[r] = "query_for"
    /\ Validate(r, get(unwrap(query_parameters[r]), cur[r].name), "query parameter")
    /\ UNCHANGED <<registry_vars, ctx, query_parameters, next_run, extracted>>

\* Faulty variant: the answer of the next stage is returned with status 200.
Forward_ok(r, resp) ==
    /\ pc[r] = "Validating" /\ line[r] = "for"
    /\ visited[r] = DOMAIN validators
    /\ Return(r, [resp EXCEPT !.status = 200])
    /\ log' = [log EXCEPT ![r] = Append(@, Event("next", NoKey, 0, NoValidator, TRUE))]
    /\ next_run' = [next_run EXCEPT ![r] =
                      Append(@, [request |-> ctx[r], answer |-> resp])]
    /\ UNCHANGED <<registry_vars, ctx, query_parameters, visited, cur, vi, extracted>>

\* next.run(ctx).await
Forward(r, resp) ==
    /\ pc[r] = "Validating" /\ line[r] = "for"
    /\ visited[r] = DOMAIN validators
    /\ Return(r, resp)
    /\ log' = [log EXCEPT ![r] = Append(@, Event("next", NoKey, 0, NoValidator, TRUE))]
    /\ next_run' = [next_run EXCEPT ![r] =
                      Append(@, [request |-> ctx[r], answer |-> resp])]
    /\ UNCHANGED <<registry_vars, ctx, query_parameters, visited, cur, vi, extracted>>

\* The host sends the response; the task is free for the next request.
Respond(r) ==
    /\ pc[r] = "Resolved"
    /\ pc' = [pc EXCEPT ![r] = "idle"]
    /\ line' = [line EXCEPT ![r] = "none"]
    /\ ctx' = [ctx EXCEPT ![r] = NoRequest]
    /\ query_parameters' = [query_parameters EXCEPT ![r] = None]
    /\ visited' = [visited EXCEPT ![r] = {}]
    /\ cur' = [cur EXCEPT ![r] = NoKey]
    /\ vi' = [vi EXCEPT ![r] = 0]
    /\ response' = [response EXCEPT ![r] = None]
    /\ log' = [log EXCEPT ![r] = <<>>]
    /\ next_run' = [next_run EXCEPT ![r] = <<>>]
    /\ extracted' = [extracted EXCEPT ![r] = {}]
    /\ UNCHANGED registry_vars

Handle(r) ==
    \/ \E k \in ParameterType : ForEach(r, k)
    \/ ParamArm(r)
    \/ QueryDecode(r)
    \/ QueryGet(r)
    \/ QueryArm(r)
    \/ HeaderArm(r)
    \/ CookieArm(r)
    \/ \E resp \in NextResponses : Forward(r, resp)

Next ==
    \/ \E k \in ParameterType, f \in Validators : AddValidator(k, f)
    \/ /\ ~installed
       /\ \E given \in GivenMaps(MaxRegs - Size(validators)) :
            \E order \in IterOrders(DOMAIN given) : WithValidators(given, order)
    \/ Install
    \/ \E r \in Tasks :
         /\ installed /\ pc[r] = "idle"
         /\ \E c \in RequestsFor(DOMAIN validators) : Receive(r, c)
    \/ \E r \in Tasks : Handle(r)
    \/ \E r \in Tasks : Respond(r)

Spec == Init /\ [][Next]_vars

\* Every started handle call keeps running: the executor polls a task until
\* its future completes.
FairSpec == Spec /\ \A r \in Workers : WF_vars(Handle(r))

(***************************************************************************)
(* Two requests in flight on an installed middleware.                      *)
(***************************************************************************)
\* The registries of the concurrent runs: two QueryParam keys, and a
\* QueryParam key with a path parameter.
ConcRegistries ==
    { ([src |-> "QueryParam", name |-> "test"] :> <<[fn |-> "is_bool", arg |-> 0]>>)
        @@ ([src |-> "QueryParam", name |-> "q"] :> <<[fn |-> "is_number", arg |-> 0]>>),
      ([src |-> "QueryParam", name |-> "test"] :> <<[fn |-> "is_bool", arg |-> 0]>>)
        @@ ([src |-> "Param", name |-> "n"] :> <<[fn |-> "is_number", arg |-> 0]>>) }

\* The middleware is installed and serves two tasks.
ConcInit ==
    /\ validators \in ConcRegistries
    /\ installed = TRUE
    /\ last = [op |-> "install", key |-> NoKey, given |-> new]
    /\ registered = [k \in ParameterType |->
                       IF k \in DOMAIN validators THEN validators[k] ELSE <<>>]
    /\ pc = [r \in {1, 2} |-> "idle"]
    /\ line = [r \in {1, 2} |-> "none"]
    /\ ctx = [r \in {1, 2} |-> NoRequest]
    /\ query_parameters = [r \in {1, 2} |-> None]
    /\ visited = [r \in {1, 2} |-> {}]
    /\ cur = [r \in {1, 2} |-> NoKey]
    /\ vi = [r \in {1, 2} |-> 0]
    /\ response = [r \in {1, 2} |-> None]
    /\ log = [r \in {1, 2} |-> <<>>]
    /\ next_run = [r \in {1, 2} |-> <<>>]
    /\ extracted = [r \in {1, 2} |-> {}]

ConcNext ==
    \/ \E r \in Tasks :
         /\ installed /\ pc[r] = "idle"
         /\ \E c \in RequestsFor(DOMAIN validators) : Receive(r, c)
    \/ \E r \in Tasks : Handle(r)
    \/ \E r \in Tasks : Respond(r)

ConcSpec == ConcInit /\ [][ConcNext]_vars

TypeOK ==
    /\ DOMAIN validators \subseteq ParameterType
    /\ installed \in BOOLEAN
    /\ \A r \in Tasks :
         /\ pc[r] \in {"idle", "Validating", "Resolved", "Panicked"}
         /\ visited[r] \subseteq DOMAIN validators
         /\ is_some(response[r]) <=> pc[r] = "Resolved"

(***************************************************************************)
(* Vocabulary of the properties.                                           *)
(***************************************************************************)
\* The registered field is present in the request.
Present(c, k) == is_some(Field(c, k))

\* A validator call that returned Err.
IsReject(e) == e.op = "validator" /\ ~e.ok

\* The positions of the log at which the given call was made.
Calls(r, op) == {i \in 1..Len(log[r]) : log[r][i].op = op}

\* handle returned because the validator called last rejected the value.
Rejected(r) ==
    /\ pc[r] = "Resolved"
    /\ Len(log[r]) >= 2
    /\ IsReject(log[r][Len(log[r]) - 1])
    /\ log[r][Len(log[r])].op = "body_json"

\* The error that validator returned.
RejectedWith(r) ==
    LET e == log[r][Len(log[r]) - 1]
    IN  call(e.f, unwrap(Field(ctx[r], e.key))).err

\* The error body was serialized.
Serialized(r) == log[r][Len(log[r])].ok

\* handle returned because the query string did not decode.
QueryFailed(r) ==
    /\ pc[r] = "Resolved"
    /\ Len(log[r]) >= 1
    /\ log[r][Len(log[r])].op = "query"
    /\ ~log[r][Len(log[r])].ok

\* handle called next.run once, with the request it was given, and returned
\* its answer.
Forwarded(r) ==
    /\ pc[r] = "Resolved"
    /\ Len(next_run[r]) = 1
    /\ next_run[r][1].request = ctx[r]
    /\ response[r] = Some(next_run[r][1].answer)

QueryKeys == {k \in ParameterType : k.src = "QueryParam"}

(***************************************************************************)
(* C1  Short-circuit.                                                      *)
(***************************************************************************)
\* Exactly one registered field is present and its first validator rejects it.
OnePresentFailsFirst(r) ==
    \E k \in DOMAIN validators :
       /\ Present(ctx[r], k)
       /\ \A o \in DOMAIN validators \ {k} : ~Present(ctx[r], o)
       /\ ~call(validators[k][1], unwrap(Field(ctx[r], k))).ok

\* C1: once a validator has returned a failure, handle calls no further
\* validator, does not call the query decoder and never calls next.run: the
\* only call after the rejection is the serialization of the error, and handle
\* has returned. In particular a request whose only present registered field
\* fails its first validator never reaches next.run.
ShortCircuit ==
    \A r \in Tasks :
       /\ \A i \in 1..Len(log[r]) :
            IsReject(log[r][i]) =>
               /\ \A j \in (i + 1)..Len(log[r]) : log[r][j].op = "body_json"
               /\ Calls(r, "next") = {}
               /\ next_run[r] = <<>>
               /\ pc[r] = "Resolved"
       /\ (pc[r] = "Resolved" /\ OnePresentFailsFirst(r)) =>
               (Calls(r, "next") = {} /\ next_run[r] = <<>>)

\* A rejection that left a present field of another key unvisited.
ShortCircuitWitness ==
    \E r \in Tasks :
       /\ Rejected(r)
       /\ \E k \in DOMAIN validators \ (visited[r] \cup {cur[r]}) :
            Present(ctx[r], k)

(***************************************************************************)
(* C2  Status of a rejection.                                              *)
(***************************************************************************)
\* C2: when a validator rejects a value and the error body serializes, the
\* status of the response is the status code carried by the error the
\* validator returned.
StatusFromError ==
    \A r \in Tasks :
       (Rejected(r) /\ Serialized(r)) =>
           unwrap(response[r]).status = RejectedWith(r).status_code

(***************************************************************************)
(* C3  Identity.                                                           *)
(***************************************************************************)
NonePresent(r) == \A k \in DOMAIN validators : ~Present(ctx[r], k)

\* C3 as stated: a request in which no registered field is present is
\* forwarded to the next stage and the answer of the next stage is returned.
IdentityWhenNonePresent ==
    \A r \in Tasks :
       (pc[r] = "Resolved" /\ NonePresent(r)) => Forwarded(r)

\* C3 amended: a request in which no registered field is present, and whose
\* query string decodes whenever a QueryParam key is registered, is forwarded
\* to the next stage without any validator being called and the answer of the
\* next stage is returned unmodified.
IdentityWhenNonePresentAndDecodes ==
    \A r \in Tasks :
       ( /\ pc[r] = "Resolved"
         /\ NonePresent(r)
         /\ (ctx[r].query.ok \/ DOMAIN validators \cap QueryKeys = {}) )
       => (Forwarded(r) /\ Calls(r, "validator") = {})

\* A forwarded request that has none of the fields of a registry holding a
\* QueryParam key and a key of another source.
IdentityWitness ==
    \E r \in Tasks :
       /\ Forwarded(r)
       /\ NonePresent(r)
       /\ DOMAIN validators \cap QueryKeys # {}
       /\ DOMAIN validators \ QueryKeys # {}

(***************************************************************************)
(* C4  Order preservation.                                                 *)
(***************************************************************************)
\* The validator calls made for key k before position p of the log.
Before(r, k, p) ==
    {i \in 1..(p - 1) : log[r][i].op = "validator" /\ log[r][i].key = k}

\* C4: the chain of a key lists the validators in the order they were
\* registered; handle calls them in that order, each one only after all the
\* earlier ones accepted the value; and the error returned is the one of the
\* earliest registered validator that rejects the value.
OrderPreserved ==
    /\ \A k \in ParameterType :
         IF k \in DOMAIN validators
         THEN validators[k] = registered[k]
         ELSE registered[k] = <<>>
    /\ \A r \in Tasks :
         /\ \A p \in Calls(r, "validator") :
              LET e == log[r][p]
              IN  /\ e.i = Cardinality(Before(r, e.key, p)) + 1
                  /\ e.i <= Len(registered[e.key])
                  /\ e.f = registered[e.key][e.i]
                  /\ \A i \in Before(r, e.key, p) : log[r][i].ok
         /\ (Rejected(r) /\ Serialized(r)) =>
              LET e == log[r][Len(log[r]) - 1]
                  v == unwrap(Field(ctx[r], e.key))
              IN  /\ ~call(registered[e.key][e.i], v).ok
                  /\ \A j \in 1..(e.i - 1) : call(registered[e.key][j], v).ok
                  /\ unwrap(response[r]).body = call(registered[e.key][e.i], v).err

\* is_bool then is_length_under(10) on QueryParam("test"), ?test=true: the
\* length failure is reported.
OrderWitness ==
    \E r \in Tasks :
       LET k == [src |-> "QueryParam", name |-> "test"]
           v == <<"t","r","u","e">>
       IN  /\ Rejected(r)
           /\ k \in DOMAIN validators
           /\ registered[k] = << [fn |-> "is_bool", arg |-> 0],
                                 [fn |-> "is_length_under", arg |-> MinLength] >>
           /\ ctx[r].query.map["test"] = Some(v)
           /\ Calls(r, "validator") = {2, 3}
           /\ response[r] = Some(body_json(400,
                 CustomError(400, "'{}' have not the minimal length of {}",
                             v, MinLength)))

(***************************************************************************)
(* C5  Caching of the decoded query string.                                *)
(***************************************************************************)
\* C5: within one request the query decoder is called at most once, and the
\* cache, once filled, holds the mapping the decoder returned.
QueryDecodedOnce ==
    \A r \in Tasks :
       /\ Cardinality(Calls(r, "query")) <= 1
       /\ is_some(query_parameters[r]) =>
            /\ Cardinality(Calls(r, "query")) = 1
            /\ unwrap(query_parameters[r]) = ctx_query(ctx[r]).qps

\* Both QueryParam keys went through their arm on one decoder call.
QueryDecodedOnceWitness ==
    \E r \in Tasks :
       /\ QueryKeys \subseteq visited[r]
       /\ Cardinality(QueryKeys) >= 2
       /\ Cardinality(Calls(r, "query")) = 1

(***************************************************************************)
(* C6  handle always returns a response.                                   *)
(***************************************************************************)
\* C6: every handle call that has started ends with handle returning a
\* response (Validating leads to Resolved); handle never unwinds; a response
\* exists exactly while the call is Resolved and is never replaced.
AlwaysResponds ==
    /\ \A r \in Workers : (pc[r] = "Validating") ~> (pc[r] = "Resolved")
    /\ [](\A r \in Workers :
            /\ pc[r] # "Panicked"
            /\ is_some(response[r]) <=> pc[r] = "Resolved")
    /\ [][\A r \in Workers :
            (pc[r] = "Resolved" /\ pc'[r] = "Resolved") => response'[r] = response[r]]_vars

\* A rejection whose error body could not be serialized, answered all the same.
AlwaysRespondsWitness ==
    \E r \in Tasks :
       /\ Rejected(r)
       /\ ~Serialized(r)
       /\ is_some(response[r])
       /\ unwrap(response[r]).status = 500

(***************************************************************************)
(* C7  Registry invariant.                                                 *)
(***************************************************************************)
\* C7: every key of the validators map has a non-empty chain, and an
\* add_validator call for a key that has a chain appends to it: the chain
\* grows by exactly one, its earlier entries and the chains of the other keys
\* are unchanged. For a key without a chain the call creates <<validator>>.
RegistryInvariant ==
    /\ [](\A k \in DOMAIN validators : Len(validators[k]) >= 1)
    /\ [][(~installed /\ last'.op = "add_validator") =>
            LET k == last'.key
                f == last'.given[k]
            IN  /\ DOMAIN validators' = DOMAIN validators \cup {k}
                /\ \A o \in DOMAIN validators \ {k} : validators'[o] = validators[o]
                /\ validators'[k][Len(validators'[k])] = f
                /\ IF k \in DOMAIN validators
                   THEN /\ Len(validators'[k]) = Len(validators[k]) + 1
                        /\ SubSeq(validators'[k], 1, Len(validators[k])) = validators[k]
                   ELSE Len(validators'[k]) = 1]_vars

\* add_validator has just been called for a key that had a chain.
RegistryWitness ==
    /\ last.op = "add_validator"
    /\ Len(validators[last.key]) >= 2

(***************************************************************************)
(* C8  with_validators is add_validator per entry.                         *)
(***************************************************************************)
\* C8: with_validators leaves the registry that one add_validator call per
\* entry of the given mapping leaves: for each key of the mapping the new
\* validator comes after the validators the key already had (none of which
\* is dropped), and the chains of the other keys are unchanged.
WithValidatorsAppends ==
    [][(~installed /\ last'.op = "with_validators") =>
         LET given == last'.given
         IN  /\ DOMAIN validators' = DOMAIN validators \cup DOMAIN given
             /\ \A k \in DOMAIN validators' :
                  validators'[k] =
                     (IF k \in DOMAIN validators THEN validators[k] ELSE <<>>)
                     \o (IF k \in DOMAIN given THEN <<given[k]>> ELSE <<>>)]_vars

\* with_validators has just been called with a key that had a chain.
WithValidatorsWitness ==
    /\ last.op = "with_validators"
    /\ \E k \in DOMAIN last.given :
         /\ Len(validators[k]) >= 2
         /\ validators[k][Len(validators[k])] = last.given[k]

(***************************************************************************)
(* C9  Absence is never a failure.                                         *)
(***************************************************************************)
\* The accessor finds no value for the key (for a query parameter: the
\* decoded mapping has no such name).
Absent(c, k) ==
    /\ is_none(Field(c, k))
    /\ k.src = "QueryParam" => c.query.ok

QueryParseFailure ==
    \A r \in Tasks :
       /\ \A i \in Calls(r, "query") :
            ~log[r][i].ok =>
               /\ i = Len(log[r])
               /\ pc[r] = "Resolved"
               /\ next_run[r] = <<>>
               /\ unwrap(response[r]).status = 500
               /\ unwrap(response[r]).kind = "text"
               /\ unwrap(response[r]).body.fmt = <<"cannot read query parameters: {:?}">>
               /\ unwrap(response[r]).body.error = "tide::Error"
       /\ (pc[r] = "Validating" /\ line[r] \in {"query_unwrap", "query_for"}) =>
               ctx[r].query.ok
       /\ Rejected(r) =>
               /\ unwrap(response[r]).kind = "text" =>
                    unwrap(response[r]).body.fmt # <<"cannot read query parameters: {:?}">>
               /\ Serialized(r) => unwrap(response[r]).status # 500

\* The decoder failed while a present field of another key was still to be
\* validated.
QueryParseFailureWitness ==
    \E r \in Tasks :
       /\ QueryFailed(r)
       /\ \E k \in DOMAIN validators \ (visited[r] \cup {cur[r]}) :
            Present(ctx[r], k)

(***************************************************************************)
(* C11  Response-encoding failure.                                         *)
(***************************************************************************)
\* The word the fallback text of a source uses.
WhatOf(k) ==
    CASE k.src = "Param"      -> "parameter"
      [] k.src = "QueryParam" -> "query parameter"
      [] k.src = "Header"     -> "header"
      [] k.src = "Cookie"     -> "cookie"

\* C11: when a validator rejects a value and the error body does not
\* serialize, handle returns (it does not unwind) a plain-text response of
\* status 500 whose text is the one of the source of the key and names the
\* field and the encoding error; next.run is not called.
EncodingFailure ==
    \A r \in Tasks :
       (Rejected(r) /\ ~Serialized(r)) =>
          LET k    == log[r][Len(log[r])].key
              resp == unwrap(response[r])
          IN  /\ pc[r] = "Resolved"
              /\ resp.status = 500
              /\ resp.kind = "text"
              /\ resp.body.fmt = <<"cannot serialize your ", WhatOf(k),
                                   " validator for '{}' error : {:?}">>
              /\ resp.body.name = k.name
              /\ resp.body.error = "serde_json::Error"
              /\ next_run[r] = <<>>
              /\ Calls(r, "next") = {}

\* A cookie was rejected and the error body did not serialize.
EncodingFailureWitness ==
    \E r \in Tasks :
       /\ Rejected(r)
       /\ ~Serialized(r)
       /\ log[r][Len(log[r])].key.src = "Cookie"
       /\ unwrap(response[r]).body.name = "test"

(***************************************************************************)
(* C12  Delegation is transparent.                                         *)
(***************************************************************************)
\* Every present value of every registered key passes every validator of
\* the chain of the key.
AllPass(r) ==
    \A k \in DOMAIN validators :
       Present(ctx[r], k) =>
          \A i \in 1..Len(validators[k]) :
             call(validators[k][i], unwrap(Field(ctx[r], k))).ok

\* The query string decodes, or no QueryParam key makes handle decode it.
Decodes(r) == ctx[r].query.ok \/ DOMAIN validators \cap QueryKeys = {}

\* C12 as stated: whenever every present value passes every validator,
\* handle calls next.run exactly once with the request it received and
\* returns its answer; on every other path next.run is not called.
DelegatesWhenAllPass ==
    \A r \in Tasks :
       pc[r] = "Resolved" =>
          IF AllPass(r) THEN Forwarded(r) ELSE next_run[r] = <<>>

\* C12 amended: whenever every present value passes every validator and the
\* query string decodes (when a QueryParam key is registered), handle calls
\* next.run exactly once with the request it received and returns its answer
\* verbatim; on every other path next.run is not called at all.
DelegatesWhenAllPassAndDecodes ==
    \A r \in Tasks :
       /\ Len(next_run[r]) <= 1
       /\ pc[r] # "Resolved" => next_run[r] = <<>>
       /\ pc[r] = "Resolved" =>
            IF AllPass(r) /\ Decodes(r)
            THEN Forwarded(r) /\ unwrap(response[r]) \in NextResponses
            ELSE next_run[r] = <<>> /\ Calls(r, "next") = {}

\* A forwarded request all of whose registered fields are present, after two
\* validator calls, answered with the endpoint's 404.
DelegatesWitness ==
    \E r \in Tasks :
       /\ Forwarded(r)
       /\ \A k \in DOMAIN validators : Present(ctx[r], k)
       /\ Cardinality(Calls(r, "validator")) >= 2
       /\ unwrap(response[r]).status = 404

(***************************************************************************)
(* C13  What a rejection tells the client.                                 *)
(***************************************************************************)
\* The response names the field: the text of a plain-text response has it as
\* an argument, a JSON body has it as a member.
NamesField(resp, k) ==
    IF resp.kind = "text"
    THEN resp.body.name = k.name
    ELSE "name" \in DOMAIN resp.body /\ resp.body.name = k.name

\* The response carries the message of the error.
CarriesMessage(resp, err) ==
    /\ resp.kind = "json"
    /\ "message" \in DOMAIN resp.body
    /\ resp.body.message = err.message

\* C13: the response to a rejection whose error body serializes carries the
\* name of the field whose validator rejected the value and the message of
\* the validator.
RejectionNamesField ==
    \A r \in Tasks :
       (Rejected(r) /\ Serialized(r)) =>
          /\ CarriesMessage(unwrap(response[r]), RejectedWith(r))
          /\ NamesField(unwrap(response[r]), log[r][Len(log[r])].key)

(***************************************************************************)
(* C14  Concurrent requests are independent.                               *)
(***************************************************************************)
\* Index of the first validator of the chain that rejects the value, 0 when
\* none does.
RECURSIVE first_reject(_, _, _)
first_reject(chain, i, value) ==
    IF i > Len(chain) THEN 0
    ELSE IF ~call(chain[i], value).ok THEN i
    ELSE first_reject(chain, i + 1, value)

\* handle run from its first line to its return on one request, alone: the
\* keys come in the given order, qp is the local query_parameters, serialized
\* tells whether body_json succeeds and answer is what next.run returns.
RECURSIVE handle_alone(_, _, _, _, _, _)
handle_alone(vs, c, order, qp, serialized, answer) ==
    IF Len(order) = 0 THEN answer
    ELSE
      LET k       == order[1]
          decode  == k.src = "QueryParam" /\ is_none(qp)
          decoded == ctx_query(c)
          cache   == IF decode /\ decoded.ok THEN Some(decoded.qps) ELSE qp
          found   == CASE k.src = "Param"      -> ctx_param(c, k.name)
                       [] k.src = "QueryParam" ->
                            IF is_some(cache) THEN get(unwrap(cache), k.name) ELSE None
                       [] k.src = "Header"     -> ctx_header(c, k.name)
                       [] k.src = "Cookie"     -> ctx_cookie(c, k.name)
          bad     == IF is_some(found) THEN first_reject(vs[k], 1, unwrap(found)) ELSE 0
      IN  IF decode /\ ~decoded.ok THEN query_error_response
          ELSE IF bad # 0
          THEN error_response(WhatOf(k), k.name,
                              call(vs[k][bad], unwrap(found)).err, serialized)
          ELSE handle_alone(vs, c, Tail(order), cache, serialized, answer)

\* The responses handle can give to a request when it runs alone.
SoloResponses(vs, c) ==
    { handle_alone(vs, c, order, None, serialized, answer) :
         order \in IterOrders(DOMAIN vs),
         serialized \in BOOLEAN,
         answer \in NextResponses }

\* The variables of one task.
TaskState(r) ==
    <<pc[r], line[r], ctx[r], query_parameters[r], visited[r], cur[r], vi[r],
      response[r], log[r], next_run[r], extracted[r]>>

NoQueryString(c) ==
    /\ c.query.ok
    /\ \A n \in DOMAIN c.query.map : is_none(c.query.map[n])

EmptyMapping == [n \in {} |-> <<>>]

\* The decoder is called only in the arm of a registered QueryParam key.
DecodedInQueryArm(r) ==
    /\ \A i \in Calls(r, "query") : log[r][i].key \in DOMAIN validators \cap QueryKeys
    /\ DOMAIN validators \cap QueryKeys = {} => Calls(r, "query") = {}

\* No validator of a QueryParam key was called.
QueryKeysSkipped(r) ==
    \A i \in Calls(r, "validator") : log[r][i].key \notin QueryKeys

\* One decoder call, which returned the empty mapping.
DecodedOnceToEmpty(r) ==
    /\ Cardinality(Calls(r, "query")) = 1
    /\ \A i \in Calls(r, "query") : log[r][i].ok
    /\ query_parameters[r] = Some(EmptyMapping)

\* C15 as stated: the decoder is called only when a QueryParam key is
\* reached, never when no QueryParam key is registered; and a request with no
\* query string, with a QueryParam key registered, has the decoder called
\* exactly once, yielding the empty mapping, every QueryParam key skipped and
\* the request forwarded.
LazyDecodeForwards ==
    \A r \in Tasks :
       /\ DecodedInQueryArm(r)
       /\ ( /\ pc[r] = "Resolved"
            /\ NoQueryString(ctx[r])
            /\ DOMAIN validators \cap QueryKeys # {} )
          => (DecodedOnceToEmpty(r) /\ QueryKeysSkipped(r) /\ Forwarded(r))

\* C15 amended: the same, except that a request with no query string is
\* forwarded after exactly one decoder call only when no validator of a key
\* of another source rejects its value; when one does, handle returns that
\* rejection and the decoder has been called at most once.
LazyDecode ==
    \A r \in Tasks :
       /\ DecodedInQueryArm(r)
       /\ ( /\ pc[r] = "Resolved"
            /\ NoQueryString(ctx[r])
            /\ DOMAIN validators \cap QueryKeys # {} )
          => /\ QueryKeysSkipped(r)
             /\ IF Rejected(r)
                THEN /\ log[r][Len(log[r])].key \notin QueryKeys
                     /\ Cardinality(Calls(r, "query")) <= 1
                     /\ \A i \in Calls(r, "query") : log[r][i].ok
                ELSE /\ DecodedOnceToEmpty(r)
                     /\ QueryKeys \cap DOMAIN validators \subseteq visited[r]
                     /\ Forwarded(r)

\* No query string, a QueryParam key and a key of another source registered,
\* the other field validated, one decoder call, forwarded.
LazyDecodeWitness ==
    \E r \in Tasks :
       /\ Forwarded(r)
       /\ NoQueryString(ctx[r])
       /\ DOMAIN validators \cap QueryKeys # {}
       /\ DecodedOnceToEmpty(r)
       /\ Calls(r, "validator") # {}

(***************************************************************************)
(* C16  The iteration order decides only which error is reported.          *)
(***************************************************************************)
\* C16: two handle calls on the same registry and the same request, each
\* with its own iteration order of the keys, are both forwarded to the next
\* stage or both answered with an error response.
OrderDecidesOnlyTheError ==
    \A r1, r2 \in Tasks :
       (pc[r1] = "Resolved" /\ pc[r2] = "Resolved" /\ ctx[r1] = ctx[r2]) =>
          /\ Forwarded(r1) <=> Forwarded(r2)
          /\ (Rejected(r1) \/ QueryFailed(r1)) <=> (Rejected(r2) \/ QueryFailed(r2))
          /\ Forwarded(r1) <=> ~(Rejected(r1) \/ QueryFailed(r1))

\* The same request answered with a rejection (400) in one order and with
\* the query parse failure (500) in the other.
OrderDecidesOnlyTheErrorWitness ==
    /\ Tasks = {1, 2}
    /\ ctx[1] = ctx[2]
    /\ Rejected(1) /\ Serialized(1)
    /\ QueryFailed(2)
    /\ unwrap(response[1]).status = 400
    /\ unwrap(response[2]).status = 500

(***************************************************************************)
(* C17  The cache is filled where it is unwrapped.                         *)
(***************************************************************************)
\* C17: whenever handle is at the unwrap of query_parameters, or past it in
\* the same arm, the cache holds the mapping a successful decoder call of
\* this request returned; the unwrap never fails.
CachePopulated ==
    \A r \in Tasks :
       /\ pc[r] # "Panicked"
       /\ (pc[r] = "Validating" /\ line[r] \in {"query_unwrap", "query_for"}) =>
            /\ is_some(query_parameters[r])
            /\ unwrap(query_parameters[r]) = ctx_query(ctx[r]).qps
            /\ \E i \in Calls(r, "query") : log[r][i].ok

\* At the unwrap in the arm of a second QueryParam key: the cache was filled
\* in the arm of the first.
CachePopulatedWitness ==
    \E r \in Tasks :
       /\ pc[r] = "Validating"
       /\ line[r] = "query_unwrap"
       /\ visited[r] \cap QueryKeys # {}

(***************************************************************************)
(* C18  One value per chain.                                               *)
(***************************************************************************)
\* The accessor calls made for key k.
Extractions(r, k) == {e \in extracted[r] : e.key = k}

\* C18: for a Param, Header or Cookie key the accessor is called once per
\* validator of the chain, for a QueryParam key once per key; the request is
\* not modified while handle runs, so all accessor calls of a key find the
\* same value, every validator of a chain is applied to that value, and the
\* outcome is the one of the value extracted once per key: a rejection
\* carries the error of that value, and a forwarded request has that value
\* pass every validator of the chain.
OneValuePerChain ==
    /\ [][\A r \in Tasks :
            (pc[r] = "Validating" /\ pc'[r] # "idle") => ctx'[r] = ctx[r]]_vars
    /\ [](\A r \in Tasks :
            /\ \A e \in extracted[r] :
                 /\ e.found = Field(ctx[r], e.key)
                 /\ e.i \in 1..Len(validators[e.key])
                 /\ e.key.src = "QueryParam" => Cardinality(Extractions(r, e.key)) = 1
                 /\ e.key.src # "QueryParam" =>
                      \A j \in 1..e.i : \E p \in Extractions(r, e.key) : p.i = j
            /\ \A k \in visited[r] :
                 k.src # "QueryParam" =>
                    {e.i : e \in Extractions(r, k)} = 1..Len(validators[k])
            /\ \A p \in Calls(r, "validator") :
                 LET c == log[r][p]
                 IN  \E e \in Extractions(r, c.key) :
                        /\ c.key.src # "QueryParam" => e.i = c.i
                        /\ is_some(e.found)
                        /\ c.ok = call(c.f, unwrap(e.found)).ok
            /\ Rejected(r) =>
                 LET k == log[r][Len(log[r]) - 1].key
                 IN  response[r] =
                        Some(error_response(WhatOf(k), k.name, RejectedWith(r),
                                            Serialized(r)))
            /\ (pc[r] = "Resolved" /\ ~Rejected(r) /\ ~QueryFailed(r)) =>
                 /\ Forwarded(r)
                 /\ \A k \in DOMAIN validators :
                       is_some(Field(ctx[r], k)) =>
                          \A i \in 1..Len(validators[k]) :
                             call(validators[k][i], unwrap(Field(ctx[r], k))).ok)

\* A chain of two validators of a key that is not a QueryParam, called on
\* two extractions of the same value.
OneValuePerChainWitness ==
    \E r \in Tasks :
       \E k \in DOMAIN validators :
          /\ k.src # "QueryParam"
          /\ Len(validators[k]) = 2
          /\ Cardinality(Extractions(r, k)) = 2
          /\ Cardinality({p \in Calls(r, "validator") : log[r][p].key = k}) = 2

====
